---------------------------- MODULE Spec2Model ----------------------------
(***************************************************************************)
(* A model of the extraction-and-correlation pipeline of iGem:             *)
(*   src/src/main/main.ts             wildcardToRegex,                     *)
(*                                    extractFilesMatchingPath,            *)
(*                                    extractFileFromZip and the IPC       *)
(*                                    handlers of the main process;        *)
(*   src/src/renderer/App/Map/Map.js  matchKtxToLocations and the timeline *)
(*                                    (window, step, playback).            *)
(*                                                                         *)
(* Strings the code inspects character by character (entry paths, wildcard *)
(* patterns, regular expression sources) are sequences of one-character    *)
(* strings.  Four specifications share the variables:                      *)
(*   Spec          one invocation of an IPC handler of main.ts;            *)
(*   SpecRegex     wildcardToRegex followed by RegExp.prototype.test;      *)
(*   SpecCorr      matchKtxToLocations on a pair of input lists;           *)
(*   SpecTimeline  the window, step and playback operations of Map.js.     *)
(***************************************************************************)
EXTENDS Integers, Sequences, FiniteSets, TLC

VARIABLES
    \* ---- SpecRegex: wildcardToRegex / regexPattern.test
    pattern,        \* the wildcard pattern handed to wildcardToRegex
    candidate,      \* the path handed to regexPattern.test
    regexSrc,       \* the source of the compiled RegExp, or <<>> before compilation
    testResult,     \* what regexPattern.test returned (FALSE before the test)
    rxPc,           \* "pattern", then "compiled", then "tested"
    \* ---- SpecCorr: matchKtxToLocations
    locations,      \* allLocations: sequence of [deviceId, timestamp]
    ktxFiles,       \* allKtxFiles: sequence of [deviceId, timestamp, id]
    matchedLocations, \* the state set by setMatchedLocations
    corrPc,         \* "input" before matchKtxToLocations ran, "matched" after
    \* ---- Spec: one invocation of an IPC handler of main.ts
    handler,        \* the channel invoked
    pc,             \* where the handler's async function stands
    archive,        \* the entry names (entry.fileName) of the archive, in order
    zipState,       \* "none", "opening", "open", "failed", "ended", "errored", "closed"
    readPending,    \* a readEntry() call whose 'entry'/'end' event is still to come
    entriesRead,    \* how many 'entry' events were delivered
    copy,           \* per entry: "none", "opening", "piping", "flushing", "finished", "failed"
    promise,        \* the promise of extractFilesMatchingPath / extractFileFromZip
    folder,         \* the paths of the files that exist in the destination
    uncaught,       \* the exceptions no handler caught (thrown in callbacks)
    db,             \* cacheDb: "none", "opening", "open", "openFailed", "closed"
    rows,           \* the ZTIMESTAMP values of the rows the query returned
    locationData,   \* the records handed to knex('device_locations').insert
    handlerResult,  \* what the handler's promise settled to
    \* ---- SpecTimeline: the timeline of Map.js
    startDateTime,  \* <<>> for null, <<t>> for the instant t picked (milliseconds)
    endDateTime,    \* likewise
    filteredLocations, \* the records inside the window
    visibleLocations,  \* the records drawn on the map
    isPlaying,      \* the play/pause toggle
    index,          \* the play index
    animation,      \* animationRef.current and the live intervals, each with the
                    \* closure of its callback
    playLog,        \* history: where the running playback started, its ticks so far
    lastOp          \* history: the operation that ran last

regexVars == <<pattern, candidate, regexSrc, testResult, rxPc>>
corrVars == <<locations, ktxFiles, matchedLocations, corrPc>>
mainVars == <<handler, pc, archive, zipState, readPending, entriesRead, copy,
              promise, folder, uncaught, db, rows, locationData, handlerResult>>
zipVars == <<archive, zipState, readPending, entriesRead, copy, promise, folder>>
dbVars == <<db, rows, locationData>>
timelineVars == <<startDateTime, endDateTime, filteredLocations, visibleLocations,
                  isPlaying, index, animation, playLog, lastOp>>
vars == <<regexVars, corrVars, mainVars, timelineVars>>

(***************************************************************************)
(* Sequences of characters.                                                *)
(***************************************************************************)
RECURSIVE ReplaceAll(_, _, _)
\* String.prototype.replace(/c/g, rep): every occurrence of the character c
\* of s replaced by the characters rep.
ReplaceAll(s, c, rep) ==
    IF s = <<>> THEN <<>>
    ELSE (IF Head(s) = c THEN rep ELSE <<Head(s)>>) \o ReplaceAll(Tail(s), c, rep)

RECURSIVE SeqsUpTo(_, _)
\* All sequences over S of length at most n.
SeqsUpTo(S, n) ==
    IF n = 0 THEN {<<>>}
    ELSE LET shorter == SeqsUpTo(S, n - 1)
         IN  shorter \cup {Append(s, x) : s \in shorter, x \in S}

\* The line terminators of ECMAScript that "." does not match (LF and CR; the
\* model's alphabet holds LF only).
LineTerminators == {"\n", "\r"}

(***************************************************************************)
(* wildcardToRegex (main.ts 43-53) and the RegExp it builds.               *)
(***************************************************************************)
\* Faulty variant: dots are not escaped, so "." matches any character.
WildcardToRegexDotUnescaped(p) ==
    <<"^">> \o
    ReplaceAll(ReplaceAll(ReplaceAll(p,
        "/", <<"\\", "/">>),
        "*", <<".", "*">>),
        "?", <<".">>)
    \o <<"$">>

\* The source of the regular expression: '^' + the four replaces in the
\* order of the code + '$'.
WildcardToRegex(p) ==
    <<"^">> \o
    ReplaceAll(ReplaceAll(ReplaceAll(ReplaceAll(p,
        "/", <<"\\", "/">>),
        ".", <<"\\", ".">>),
        "*", <<".", "*">>),
        "?", <<".">>)
    \o <<"$">>

RECURSIVE ParseRegex(_, _)
\* new RegExp(source): the atoms of the source from position i on.  The
\* sources wildcardToRegex produces from the model's patterns use: ^ and $
\* (assertions), \c (the character c), . (any character but a line
\* terminator), a following * (zero or more of the atom), and plain
\* characters.
ParseRegex(src, i) ==
    IF i > Len(src) THEN <<>>
    ELSE LET c == src[i]
             escaped == c = "\\" /\ i < Len(src)
             width == IF escaped THEN 2 ELSE 1
             kind == IF escaped THEN "lit"
                     ELSE IF c = "^" THEN "bol"
                     ELSE IF c = "$" THEN "eol"
                     ELSE IF c = "." THEN "any"
                     ELSE "lit"
             ch == IF escaped THEN src[i + 1] ELSE c
             star == i + width <= Len(src) /\ src[i + width] = "*"
                     /\ kind \in {"lit", "any"}
         IN  <<[kind |-> kind, ch |-> ch, star |-> star]>>
             \o ParseRegex(src, i + width + (IF star THEN 1 ELSE 0))

\* Whether one character is matched by an atom.
AtomMatches(atom, c) ==
    IF atom.kind = "any" THEN c \notin LineTerminators ELSE c = atom.ch

RECURSIVE MatchFrom(_, _, _, _)
\* Whether atoms k.. match s starting at position j (backtracking over the
\* length each starred atom takes).
MatchFrom(atoms, k, s, j) ==
    IF k > Len(atoms) THEN TRUE
    ELSE LET atom == atoms[k]
         IN  CASE atom.kind = "bol" -> j = 1 /\ MatchFrom(atoms, k + 1, s, j)
               [] atom.kind = "eol" -> j = Len(s) + 1 /\ MatchFrom(atoms, k + 1, s, j)
               [] atom.star ->
                    \E n \in 0..(Len(s) + 1 - j) :
                        /\ \A m \in j..(j + n - 1) : AtomMatches(atom, s[m])
                        /\ MatchFrom(atoms, k + 1, s, j + n)
               [] OTHER ->
                    /\ j <= Len(s)
                    /\ AtomMatches(atom, s[j])
                    /\ MatchFrom(atoms, k + 1, s, j + 1)

\* RegExp.prototype.test: a match starting anywhere in s.
RegexTest(src, s) ==
    LET atoms == ParseRegex(src, 1)
    IN  \E start \in 1..(Len(s) + 1) : MatchFrom(atoms, 1, s, start)

(***************************************************************************)
(* SpecRegex: a pattern is compiled, then a candidate path is tested.      *)
(***************************************************************************)
\* The longest wildcard span of a candidate path.
MaxSpan == 3

\* a/*/b.ktx and a/?/b.ktx
PatternStar == <<"a", "/", "*", "/", "b", ".", "k", "t", "x">>
PatternQuery == <<"a", "/", "?", "/", "b", ".", "k", "t", "x">>
Patterns == {PatternStar, PatternQuery}

SpanChars == {"x", "y", "/", "\n"}
Spans == SeqsUpTo(SpanChars, MaxSpan)
Affixes == {<<>>, <<"z">>}
\* pre a/ span /b dot ktx post
CandidateOf(pre, span, dot, post) ==
    pre \o <<"a", "/">> \o span \o <<"/", "b", dot, "k", "t", "x">> \o post
Candidates ==
    {CandidateOf(pre, span, dot, post) :
        pre \in Affixes, span \in Spans, dot \in {".", "X"}, post \in Affixes}

InitRegex ==
    /\ pattern \in Patterns
    /\ candidate \in Candidates
    /\ regexSrc = <<>>
    /\ testResult = FALSE
    /\ rxPc = "pattern"

\* const regexPattern = wildcardToRegex(pattern)
Compile ==
    /\ rxPc = "pattern"
    /\ regexSrc' = WildcardToRegex(pattern)
    /\ rxPc' = "compiled"
    /\ UNCHANGED <<pattern, candidate, testResult>>
    /\ UNCHANGED <<corrVars, mainVars, timelineVars>>

\* regexPattern.test(entry.fileName)
Test ==
    /\ rxPc = "compiled"
    /\ testResult' = RegexTest(regexSrc, candidate)
    /\ rxPc' = "tested"
    /\ UNCHANGED <<pattern, candidate, regexSrc>>
    /\ UNCHANGED <<corrVars, mainVars, timelineVars>>

NextRegex == Compile \/ Test


(***************************************************************************)
(* matchKtxToLocations (Map.js 52-72).                                     *)
(*                                                                         *)
(* A timestamp is the millisecond value of its Date.  The JavaScript value *)
(* undefined of ktxObj is the empty sequence, a snapshot s is <<s>>;       *)
(* hasKtxFile is "true", "false" or "undefined".                           *)
(***************************************************************************)
\* The threshold of line 64.
KtxTolerance == 30000

Abs(x) == IF x < 0 THEN -x ELSE x

RECURSIVE FilterSeq(_, _)
\* Array.prototype.filter with the test of line 56: the snapshots of device d,
\* in their input order.
FilterSeq(files, d) ==
    IF files = <<>> THEN <<>>
    ELSE (IF Head(files).deviceId = d THEN <<Head(files)>> ELSE <<>>)
         \o FilterSeq(Tail(files), d)

RECURSIVE ReduceClosest(_, _, _)
\* Array.prototype.reduce with the callback of lines 57-61: prev is replaced
\* by curr only when curr is strictly closer to the location.
ReduceClosest(files, prev, location) ==
    IF files = <<>> THEN prev
    ELSE LET curr == Head(files)
             prevDiff == Abs(location.timestamp - prev[1].timestamp)
             currDiff == Abs(location.timestamp - curr.timestamp)
         IN  ReduceClosest(Tail(files),
                           IF currDiff < prevDiff THEN <<curr>> ELSE prev,
                           location)

\* closestKtxFile of lines 55-61: the reduction over the device's snapshots
\* starts from ktxFiles[0], the first snapshot of the whole list (undefined
\* when the list is empty).
ClosestKtxFile(location, files) ==
    ReduceClosest(FilterSeq(files, location.deviceId),
                  IF files = <<>> THEN <<>> ELSE <<files[1]>>,
                  location)

\* hasKtxFile of line 64: closestKtxFile && |difference| < 30000.
HasKtxFile(location, closest) ==
    IF closest = <<>> THEN "undefined"
    ELSE IF Abs(location.timestamp - closest[1].timestamp) < KtxTolerance
         THEN "true" ELSE "false"

\* The object of lines 62-66.
MatchOne(location, files) ==
    LET closest == ClosestKtxFile(location, files)
    IN  [deviceId |-> location.deviceId,
         timestamp |-> location.timestamp,
         hasKtxFile |-> HasKtxFile(location, closest),
         ktxObj |-> closest]

RECURSIVE InsertByTimestamp(_, _)
\* x inserted into the ascending sequence s behind every element that is not
\* later than x.
InsertByTimestamp(s, x) ==
    IF s = <<>> THEN <<x>>
    ELSE IF x.timestamp < Head(s).timestamp THEN <<x>> \o s
    ELSE <<Head(s)>> \o InsertByTimestamp(Tail(s), x)

RECURSIVE SortByTimestamp(_)
\* Array.prototype.sort with the comparator of line 70 (a stable sort,
\* ascending by timestamp).
SortByTimestamp(s) ==
    IF s = <<>> THEN <<>>
    ELSE InsertByTimestamp(SortByTimestamp(SubSeq(s, 1, Len(s) - 1)), s[Len(s)])

\* locations.map(...) of line 53.
MapMatch(locs, files) == [i \in 1..Len(locs) |-> MatchOne(locs[i], files)]

(***************************************************************************)
(* SpecCorr: the two lists fetchData assembled are correlated.             *)
(***************************************************************************)
MaxLocations == 2
MaxKtxFiles == 2

DeviceIds == {1, 2}
Timestamps == {0, 30000, 40000}
Stamped == [deviceId : DeviceIds, timestamp : Timestamps]

\* The snapshots of the input, each with its own file path (its position).
WithPaths(files) ==
    [i \in 1..Len(files) |->
        [deviceId |-> files[i].deviceId, timestamp |-> files[i].timestamp,
         filepath |-> i]]

InitCorr ==
    /\ locations \in SeqsUpTo(Stamped, MaxLocations)
    /\ ktxFiles \in {WithPaths(f) : f \in SeqsUpTo(Stamped, MaxKtxFiles)}
    /\ matchedLocations = <<>>
    /\ corrPc = "input"

\* matchKtxToLocations(allLocations, allKtxFiles), line 141
MatchKtxToLocations ==
    /\ corrPc = "input"
    /\ matchedLocations' = SortByTimestamp(MapMatch(locations, ktxFiles))
    /\ corrPc' = "matched"
    /\ UNCHANGED <<locations, ktxFiles>>
    /\ UNCHANGED <<regexVars, mainVars, timelineVars>>

NextCorr == MatchKtxToLocations


(***************************************************************************)
(* The main process (main.ts).  Paths are abbreviated, segment by segment: *)
(*   A  filesystem1/private/var/mobile/Containers/Data/Application         *)
(*   S  Library/SplashBoard/Snapshots          k  ktx                      *)
(*   L  filesystem1/private/var/mobile/Library/Caches/com.apple.routined   *)
(*   C.s  Cache.sqlite                         d  extractDir               *)
(***************************************************************************)
\* matchingPathPattern of line 93: A/*/S/*/*.k
MatchingPathPattern ==
    <<"A", "/", "*", "/", "S", "/", "*", "/", "*", ".", "k">>
\* targetFilePathInZip of line 159: L/C.s
TargetFilePathInZip == <<"L", "/", "C", ".", "s">>
ExtractDir == <<"d">>

\* path.basename: what follows the last separator.
Basename(p) ==
    LET seps == {i \in 1..Len(p) : p[i] = "/"}
        last == CHOOSE i \in seps : \A j \in seps : j <= i
    IN  IF seps = {} THEN p ELSE SubSeq(p, last + 1, Len(p))

\* path.join(dir, name)
Join(dir, name) == dir \o <<"/">> \o name

\* ktxFolder of line 58
KtxFolder == Join(ExtractDir, <<"k", "t", "x", "_", "f", "i", "l", "e", "s">>)

\* The entry names archives are built from: three snapshots that match the
\* pattern (two of them with the same base name) and the embedded database.
KtxA1 == <<"A", "/", "1", "/", "S", "/", "2", "/", "a", ".", "k">>
KtxA2 == <<"A", "/", "1", "/", "S", "/", "3", "/", "a", ".", "k">>
KtxB == <<"A", "/", "4", "/", "S", "/", "2", "/", "b", ".", "k">>
EntryNames == {KtxA1, KtxA2, KtxB, TargetFilePathInZip}

\* The longest archive.
MaxEntries == 3
Archives == SeqsUpTo(EntryNames, MaxEntries)

(***************************************************************************)
(* Promises and the values they settle to.                                 *)
(***************************************************************************)
Pending == [state |-> "pending", value |-> <<>>]

\* resolve(v) and reject(v): only the first call settles a promise.
Settle(p, state, v) ==
    IF p.state = "pending" THEN [state |-> state, value |-> v] ELSE p

\* `Extraction complete to ${ktxFolder}` of line 85
CompleteMessage == <<"Extraction complete to ">> \o KtxFolder
\* `File "${targetFilePathInZip}" not found in the ZIP archive.` of line 147
NotFoundMessage ==
    <<"File \"">> \o TargetFilePathInZip \o <<"\" not found in the ZIP archive.">>

\* A handler's promise: pending, returned (fulfilled with an envelope) or
\* rejected (the invoke call of the renderer throws).
HandlerPending == [state |-> "pending", success |-> FALSE, payload |-> <<>>]
Returned(success, payload) ==
    [state |-> "returned", success |-> success, payload |-> payload]
Rejected(payload) ==
    [state |-> "rejected", success |-> FALSE, payload |-> payload]

ArchiveHandlers == {"extract-matching-files", "process-zip-file"}
QueryHandlers == {"get-devices", "get-device-locations"}

InitMain ==
    /\ handler \in ArchiveHandlers \cup QueryHandlers
    /\ pc = "start"
    /\ archive \in (IF handler \in ArchiveHandlers THEN Archives ELSE {<<>>})
    /\ zipState = "none"
    /\ readPending = FALSE
    /\ entriesRead = 0
    /\ copy = [i \in 1..Len(archive) |-> "none"]
    /\ promise = Pending
    /\ folder = {}
    /\ uncaught = {}
    /\ db = "none"
    /\ rows = <<>>
    /\ locationData = <<>>
    /\ handlerResult = HandlerPending

(***************************************************************************)
(* extractFilesMatchingPath (lines 55-89) under the handler of lines 92-100.*)
(***************************************************************************)
Extracting == handler = "extract-matching-files"

\* Lines 56-61: the executor. mkdirSync may throw, which rejects the promise;
\* otherwise yauzl.open is called.
ExtractStart ==
    /\ Extracting /\ pc = "start"
    /\ pc' = "awaitExtract"
    /\ \/ /\ zipState' = "opening"
          /\ UNCHANGED promise
       \/ /\ promise' = Settle(promise, "rejected", <<"mkdirSync failed">>)
          /\ UNCHANGED zipState
    /\ UNCHANGED <<handler, archive, readPending, entriesRead, copy, folder,
                   uncaught, dbVars, handlerResult>>
    /\ UNCHANGED <<regexVars, corrVars, timelineVars>>

\* Line 62: the archive cannot be opened.
ExtractOpenFailed ==
    /\ Extracting /\ zipState = "opening"
    /\ zipState' = "failed"
    /\ promise' = Settle(promise, "rejected", <<"yauzl.open failed">>)
    /\ UNCHANGED <<handler, pc, archive, readPending, entriesRead, copy, folder,
                   uncaught, dbVars, handlerResult>>
    /\ UNCHANGED <<regexVars, corrVars, timelineVars>>

\* Lines 64-86: the archive is open; the first entry is requested and the
\* listeners are registered.
ExtractOpened ==
    /\ Extracting /\ zipState = "opening"
    /\ zipState' = "open"
    /\ readPending' = TRUE
    /\ UNCHANGED <<handler, pc, archive, entriesRead, copy, promise, folder,
                   uncaught, dbVars, handlerResult>>
    /\ UNCHANGED <<regexVars, corrVars, timelineVars>>

\* Lines 65-83: the 'entry' event of the next entry. A matching entry has its
\* read stream opened; any other is skipped by requesting the next entry.
ExtractEntry ==
    /\ Extracting /\ zipState = "open" /\ readPending
    /\ entriesRead < Len(archive)
    /\ LET i == entriesRead + 1
           matches == RegexTest(WildcardToRegex(MatchingPathPattern), archive[i])
       IN  /\ entriesRead' = i
           /\ IF matches
              THEN copy' = [copy EXCEPT ![i] = "opening"] /\ readPending' = FALSE
              ELSE readPending' = TRUE /\ UNCHANGED copy
    /\ UNCHANGED <<handler, pc, archive, zipState, promise, folder,
                   uncaught, dbVars, handlerResult>>
    /\ UNCHANGED <<regexVars, corrVars, timelineVars>>

\* Line 85: the 'end' event, after the last entry.
ExtractEnd ==
    /\ Extracting /\ zipState = "open" /\ readPending
    /\ entriesRead = Len(archive)
    /\ zipState' = "ended"
    /\ readPending' = FALSE
    /\ promise' = Settle(promise, "resolved", CompleteMessage)
    /\ UNCHANGED <<handler, pc, archive, entriesRead, copy, folder,
                   uncaught, dbVars, handlerResult>>
    /\ UNCHANGED <<regexVars, corrVars, timelineVars>>

\* Line 86: the 'error' event of the archive, in place of the next entry.
ExtractZipError ==
    /\ Extracting /\ zipState = "open" /\ readPending
    /\ zipState' = "errored"
    /\ readPending' = FALSE
    /\ promise' = Settle(promise, "rejected", <<"zipFile error">>)
    /\ UNCHANGED <<handler, pc, archive, entriesRead, copy, folder,
                   uncaught, dbVars, handlerResult>>
    /\ UNCHANGED <<regexVars, corrVars, timelineVars>>

\* Line 73: openReadStream fails for entry i; nothing requests the next entry.
ExtractOpenReadStreamFailed ==
    \E i \in 1..Len(archive) :
        /\ Extracting /\ copy[i] = "opening"
        /\ copy' = [copy EXCEPT ![i] = "failed"]
        /\ promise' = Settle(promise, "rejected", <<"openReadStream failed">>)
        /\ UNCHANGED <<handler, pc, archive, zipState, readPending, entriesRead,
                       folder, uncaught, dbVars, handlerResult>>
        /\ UNCHANGED <<regexVars, corrVars, timelineVars>>

\* Lines 75-78: the write stream to ktx_files/<base name> is created and the
\* entry is piped into it.
ExtractPipe ==
    \E i \in 1..Len(archive) :
        /\ Extracting /\ copy[i] = "opening"
        /\ copy' = [copy EXCEPT ![i] = "piping"]
        /\ folder' = folder \cup {Join(KtxFolder, Basename(archive[i]))}
        /\ UNCHANGED <<handler, pc, archive, zipState, readPending, entriesRead,
                       promise, uncaught, dbVars, handlerResult>>
        /\ UNCHANGED <<regexVars, corrVars, timelineVars>>

\* Line 77: 'end' of the read stream: the next entry is requested while the
\* write stream is still flushing.
ExtractReadEnd ==
    \E i \in 1..Len(archive) :
        /\ Extracting /\ copy[i] = "piping"
        /\ copy' = [copy EXCEPT ![i] = "flushing"]
        /\ readPending' = TRUE
        /\ UNCHANGED <<handler, pc, archive, zipState, entriesRead, promise,
                       folder, uncaught, dbVars, handlerResult>>
        /\ UNCHANGED <<regexVars, corrVars, timelineVars>>

\* Line 78: 'finish' of the write stream resolves the promise with the path of
\* this one file.
ExtractWriteFinish ==
    \E i \in 1..Len(archive) :
        /\ Extracting /\ copy[i] = "flushing"
        /\ copy' = [copy EXCEPT ![i] = "finished"]
        /\ promise' = Settle(promise, "resolved", Join(KtxFolder, Basename(archive[i])))
        /\ UNCHANGED <<handler, pc, archive, zipState, readPending, entriesRead,
                       folder, uncaught, dbVars, handlerResult>>
        /\ UNCHANGED <<regexVars, corrVars, timelineVars>>

\* An 'error' event of the read stream (lines 76-77 register no listener for
\* it): it is thrown as an uncaught exception, and 'end' never comes.
ExtractReadStreamError ==
    \E i \in 1..Len(archive) :
        /\ Extracting /\ copy[i] = "piping"
        /\ copy' = [copy EXCEPT ![i] = "failed"]
        /\ uncaught' = uncaught \cup {"readStream error"}
        /\ UNCHANGED <<handler, pc, archive, zipState, readPending, entriesRead,
                       promise, folder, dbVars, handlerResult>>
        /\ UNCHANGED <<regexVars, corrVars, timelineVars>>

\* An 'error' event of the write stream (no listener either): uncaught; the
\* read stream is unpiped and stops flowing, or had already ended.
ExtractWriteStreamError ==
    \E i \in 1..Len(archive) :
        /\ Extracting /\ copy[i] \in {"piping", "flushing"}
        /\ copy' = [copy EXCEPT ![i] = "failed"]
        /\ uncaught' = uncaught \cup {"writeStream error"}
        /\ UNCHANGED <<handler, pc, archive, zipState, readPending, entriesRead,
                       promise, folder, dbVars, handlerResult>>
        /\ UNCHANGED <<regexVars, corrVars, timelineVars>>

\* Lines 94-99: the await of the handler ends; the result or the error
\* message is wrapped in the envelope.
ExtractHandlerReturn ==
    /\ Extracting /\ pc = "awaitExtract"
    /\ promise.state # "pending"
    /\ pc' = "done"
    /\ handlerResult' = Returned(promise.state = "resolved", promise.value)
    /\ UNCHANGED <<handler, zipVars, uncaught, dbVars>>
    /\ UNCHANGED <<regexVars, corrVars, timelineVars>>

NextExtract ==
    \/ ExtractStart
    \/ ExtractOpenFailed
    \/ ExtractOpened
    \/ ExtractEntry
    \/ ExtractEnd
    \/ ExtractZipError
    \/ ExtractOpenReadStreamFailed
    \/ ExtractPipe
    \/ ExtractReadEnd
    \/ ExtractWriteFinish
    \/ ExtractReadStreamError
    \/ ExtractWriteStreamError
    \/ ExtractHandlerReturn

(***************************************************************************)
(* extractFileFromZip (lines 116-155), called by process-zip-file.         *)
(***************************************************************************)
Processing == handler = "process-zip-file"

\* extractedFilePath of line 124
ExtractedFilePath == Join(ExtractDir, Basename(TargetFilePathInZip))

\* Lines 161-166: the extraction directory is made (mkdirSync may throw, and
\* the catch of line 207 returns the error envelope), then extractFileFromZip
\* is called and awaited.
ProcessStart ==
    /\ Processing /\ pc = "start"
    /\ \/ /\ pc' = "awaitExtract"
          /\ zipState' = "opening"
          /\ UNCHANGED handlerResult
       \/ /\ pc' = "done"
          /\ handlerResult' = Returned(FALSE, <<"mkdirSync failed">>)
          /\ UNCHANGED zipState
    /\ UNCHANGED <<handler, archive, readPending, entriesRead, copy, promise,
                   folder, uncaught, dbVars>>
    /\ UNCHANGED <<regexVars, corrVars, timelineVars>>

\* Line 119: the archive cannot be opened.
TargetOpenFailed ==
    /\ Processing /\ zipState = "opening"
    /\ zipState' = "failed"
    /\ promise' = Settle(promise, "rejected", <<"yauzl.open failed">>)
    /\ UNCHANGED <<handler, pc, archive, readPending, entriesRead, copy, folder,
                   uncaught, dbVars, handlerResult>>
    /\ UNCHANGED <<regexVars, corrVars, timelineVars>>

\* Lines 121-152: the archive is open; the first entry is requested.
TargetOpened ==
    /\ Processing /\ zipState = "opening"
    /\ zipState' = "open"
    /\ readPending' = TRUE
    /\ UNCHANGED <<handler, pc, archive, entriesRead, copy, promise, folder,
                   uncaught, dbVars, handlerResult>>
    /\ UNCHANGED <<regexVars, corrVars, timelineVars>>

\* Lines 122-144: the 'entry' event of the next entry. The entry whose name
\* equals the target has its read stream opened and no further entry is
\* requested; any other entry is skipped.
TargetEntry ==
    /\ Processing /\ zipState = "open" /\ readPending
    /\ entriesRead < Len(archive)
    /\ LET i == entriesRead + 1
       IN  /\ entriesRead' = i
           /\ IF archive[i] = TargetFilePathInZip
              THEN copy' = [copy EXCEPT ![i] = "opening"] /\ readPending' = FALSE
              ELSE readPending' = TRUE /\ UNCHANGED copy
    /\ UNCHANGED <<handler, pc, archive, zipState, promise, folder,
                   uncaught, dbVars, handlerResult>>
    /\ UNCHANGED <<regexVars, corrVars, timelineVars>>

\* Lines 146-148: the 'end' event: the target is not in the archive.
TargetEnd ==
    /\ Processing /\ zipState = "open" /\ readPending
    /\ entriesRead = Len(archive)
    /\ zipState' = "ended"
    /\ readPending' = FALSE
    /\ promise' = Settle(promise, "rejected", NotFoundMessage)
    /\ UNCHANGED <<handler, pc, archive, entriesRead, copy, folder,
                   uncaught, dbVars, handlerResult>>
    /\ UNCHANGED <<regexVars, corrVars, timelineVars>>

\* Lines 150-152: the 'error' event of the archive, in place of the next entry.
TargetZipError ==
    /\ Processing /\ zipState = "open" /\ readPending
    /\ zipState' = "errored"
    /\ readPending' = FALSE
    /\ promise' = Settle(promise, "rejected", <<"zipfile error">>)
    /\ UNCHANGED <<handler, pc, archive, entriesRead, copy, folder,
                   uncaught, dbVars, handlerResult>>
    /\ UNCHANGED <<regexVars, corrVars, timelineVars>>

\* Line 126: openReadStream fails for the target.
TargetOpenReadStreamFailed ==
    \E i \in 1..Len(archive) :
        /\ Processing /\ copy[i] = "opening"
        /\ copy' = [copy EXCEPT ![i] = "failed"]
        /\ promise' = Settle(promise, "rejected", <<"openReadStream failed">>)
        /\ UNCHANGED <<handler, pc, archive, zipState, readPending, entriesRead,
                       folder, uncaught, dbVars, handlerResult>>
        /\ UNCHANGED <<regexVars, corrVars, timelineVars>>

\* Lines 128-129: the write stream is created and the target piped into it.
TargetPipe ==
    \E i \in 1..Len(archive) :
        /\ Processing /\ copy[i] = "opening"
        /\ copy' = [copy EXCEPT ![i] = "piping"]
        /\ folder' = folder \cup {ExtractedFilePath}
        /\ UNCHANGED <<handler, pc, archive, zipState, readPending, entriesRead,
                       promise, uncaught, dbVars, handlerResult>>
        /\ UNCHANGED <<regexVars, corrVars, timelineVars>>

\* Lines 131-134: 'finish' of the write stream: the archive is closed and the
\* promise resolved with the path of the extracted file.
TargetWriteFinish ==
    \E i \in 1..Len(archive) :
        /\ Processing /\ copy[i] = "piping"
        /\ copy' = [copy EXCEPT ![i] = "finished"]
        /\ zipState' = "closed"
        /\ promise' = Settle(promise, "resolved", ExtractedFilePath)
        /\ UNCHANGED <<handler, pc, archive, readPending, entriesRead,
                       folder, uncaught, dbVars, handlerResult>>
        /\ UNCHANGED <<regexVars, corrVars, timelineVars>>

\* Lines 136-139: 'error' of the write stream: the archive is closed and the
\* promise rejected.
TargetWriteError ==
    \E i \in 1..Len(archive) :
        /\ Processing /\ copy[i] = "piping"
        /\ copy' = [copy EXCEPT ![i] = "failed"]
        /\ zipState' = "closed"
        /\ promise' = Settle(promise, "rejected", <<"writeStream error">>)
        /\ UNCHANGED <<handler, pc, archive, readPending, entriesRead,
                       folder, uncaught, dbVars, handlerResult>>
        /\ UNCHANGED <<regexVars, corrVars, timelineVars>>

\* An 'error' event of the read stream (line 129 pipes it, nothing listens for
\* its errors): it is thrown as an uncaught exception; the write stream is
\* never ended, so neither 'finish' nor 'error' of it follows.
TargetReadStreamError ==
    \E i \in 1..Len(archive) :
        /\ Processing /\ copy[i] = "piping"
        /\ copy' = [copy EXCEPT ![i] = "failed"]
        /\ uncaught' = uncaught \cup {"readStream error"}
        /\ UNCHANGED <<handler, pc, archive, zipState, readPending, entriesRead,
                       promise, folder, dbVars, handlerResult>>
        /\ UNCHANGED <<regexVars, corrVars, timelineVars>>

NextTarget ==
    \/ TargetOpenFailed
    \/ TargetOpened
    \/ TargetEntry
    \/ TargetEnd
    \/ TargetZipError
    \/ TargetOpenReadStreamFailed
    \/ TargetPipe
    \/ TargetWriteFinish
    \/ TargetWriteError
    \/ TargetReadStreamError

(***************************************************************************)
(* The decode of process-zip-file (lines 168-206).                         *)
(*                                                                         *)
(* A number of seconds with a millisecond fraction is [k, u], standing for *)
(* k + u/1000 seconds; a Date is [sec, ms], standing for sec*1000 + ms     *)
(* milliseconds since the Unix epoch.  (Both parts stay within 32 bits,    *)
(* far inside the range of a Date.)                                        *)
(***************************************************************************)
IOS_TO_UNIX_EPOCH_OFFSET == 978307200

\* x * 1000, x in seconds, as a count of milliseconds.
Times1000(x) == [sec |-> x.k, ms |-> x.u]

\* n milliseconds added to a count of milliseconds.
PlusMs(t, n) ==
    [sec |-> t.sec + ((t.ms + n) \div 1000), ms |-> (t.ms + n) % 1000]

\* Faulty variant: the offset, in seconds, is added to the milliseconds.
IosToUnixDateOffsetAfterScaling(raw) ==
    PlusMs(Times1000(raw), IOS_TO_UNIX_EPOCH_OFFSET)

\* new Date((row.timestamp + IOS_TO_UNIX_EPOCH_OFFSET) * 1000), line 193
IosToUnixDate(raw) ==
    Times1000([k |-> raw.k + IOS_TO_UNIX_EPOCH_OFFSET, u |-> raw.u])

\* rows.map(...) of lines 186-194 (the other columns are copied as they are).
MapRows(rs) == [i \in 1..Len(rs) |-> [timestamp |-> IosToUnixDate(rs[i])]]

\* The most rows the query returns.
MaxRows == 2
\* ZTIMESTAMP values: 0, 0.5 and 694224000 seconds after the iOS epoch.
RawTimestamps ==
    {[k |-> 0, u |-> 0], [k |-> 0, u |-> 500], [k |-> 694224000, u |-> 0]}
RowSeqs == SeqsUpTo(RawTimestamps, MaxRows)

\* Line 207: the awaited extraction failed; the catch returns the error
\* envelope.
ProcessExtractFailed ==
    /\ Processing /\ pc = "awaitExtract"
    /\ promise.state = "rejected"
    /\ pc' = "done"
    /\ handlerResult' = Returned(FALSE, promise.value)
    /\ UNCHANGED <<handler, zipVars, uncaught, dbVars>>
    /\ UNCHANGED <<regexVars, corrVars, timelineVars>>

\* Lines 168-178: the extraction succeeded; the database is opened, the query
\* is queued and the function returns the promise of line 178 without
\* awaiting it (so the try of line 158 no longer covers what follows).
ProcessOpenDb ==
    /\ Processing /\ pc = "awaitExtract"
    /\ promise.state = "resolved"
    /\ pc' = "awaitQuery"
    /\ db' = "opening"
    /\ UNCHANGED <<handler, zipVars, uncaught, rows, locationData, handlerResult>>
    /\ UNCHANGED <<regexVars, corrVars, timelineVars>>

\* Line 170: the open callback without an error.
DbOpened ==
    /\ Processing /\ db = "opening"
    /\ db' = "open"
    /\ UNCHANGED <<handler, pc, zipVars, uncaught, rows, locationData, handlerResult>>
    /\ UNCHANGED <<regexVars, corrVars, timelineVars>>

\* Line 171: the open callback with an error throws inside the callback, where
\* no try block is active.
DbOpenFailed ==
    /\ Processing /\ db = "opening"
    /\ db' = "openFailed"
    /\ uncaught' = uncaught \cup {"Could not open Cache.sqlite"}
    /\ UNCHANGED <<handler, pc, zipVars, rows, locationData, handlerResult>>
    /\ UNCHANGED <<regexVars, corrVars, timelineVars>>

\* Lines 180-183: the query callback with an error (the table is missing, or
\* the handle never opened): the promise is rejected with an envelope and the
\* callback returns.
QueryFailed ==
    /\ Processing /\ pc = "awaitQuery"
    /\ db \in {"open", "openFailed"}
    /\ pc' = "done"
    /\ handlerResult' = Rejected(<<"query error">>)
    /\ UNCHANGED <<handler, zipVars, uncaught, dbVars>>
    /\ UNCHANGED <<regexVars, corrVars, timelineVars>>

\* Lines 186-197: the query callback with the rows: they are converted and
\* the insert is awaited.
QueryRows ==
    /\ Processing /\ pc = "awaitQuery"
    /\ db = "open"
    /\ \E rs \in RowSeqs :
          /\ rows' = rs
          /\ locationData' = MapRows(rs)
    /\ pc' = "awaitInsert"
    /\ UNCHANGED <<handler, zipVars, uncaught, db, handlerResult>>
    /\ UNCHANGED <<regexVars, corrVars, timelineVars>>

\* Lines 198 and 203: the insert succeeded; the promise is resolved and the
\* finally block closes the database.
InsertDone ==
    /\ Processing /\ pc = "awaitInsert"
    /\ pc' = "done"
    /\ handlerResult' =
          Returned(TRUE, <<"Data successfully transferred to device_locations">>)
    /\ db' = "closed"
    /\ UNCHANGED <<handler, zipVars, uncaught, rows, locationData>>
    /\ UNCHANGED <<regexVars, corrVars, timelineVars>>

\* Lines 199-203: the insert failed; the promise is rejected with an envelope
\* and the finally block closes the database.
InsertFailed ==
    /\ Processing /\ pc = "awaitInsert"
    /\ pc' = "done"
    /\ handlerResult' = Rejected(<<"insert error">>)
    /\ db' = "closed"
    /\ UNCHANGED <<handler, zipVars, uncaught, rows, locationData>>
    /\ UNCHANGED <<regexVars, corrVars, timelineVars>>

NextProcess ==
    \/ ProcessStart
    \/ NextTarget
    \/ ProcessExtractFailed
    \/ ProcessOpenDb
    \/ DbOpened
    \/ DbOpenFailed
    \/ QueryFailed
    \/ QueryRows
    \/ InsertDone
    \/ InsertFailed

(***************************************************************************)
(* get-device-locations (lines 102-114) and get-devices (lines 223-231).   *)
(***************************************************************************)
Querying == handler \in QueryHandlers

\* Lines 105-107 and 225: the knex query is awaited.
KnexQuery ==
    /\ Querying /\ pc = "start"
    /\ pc' = "awaitKnex"
    /\ UNCHANGED <<handler, zipVars, uncaught, dbVars, handlerResult>>
    /\ UNCHANGED <<regexVars, corrVars, timelineVars>>

\* Lines 109 and 226: the rows are returned in the envelope.
KnexResolved ==
    /\ Querying /\ pc = "awaitKnex"
    /\ pc' = "done"
    /\ handlerResult' = Returned(TRUE, <<"data">>)
    /\ UNCHANGED <<handler, zipVars, uncaught, dbVars>>
    /\ UNCHANGED <<regexVars, corrVars, timelineVars>>

\* Lines 110-113 and 227-230: the catch returns the error envelope.
KnexRejected ==
    /\ Querying /\ pc = "awaitKnex"
    /\ pc' = "done"
    /\ handlerResult' = Returned(FALSE, <<"knex error">>)
    /\ UNCHANGED <<handler, zipVars, uncaught, dbVars>>
    /\ UNCHANGED <<regexVars, corrVars, timelineVars>>

NextQuery == KnexQuery \/ KnexResolved \/ KnexRejected

(***************************************************************************)
(* The timeline of Map.js (lines 147-212).                                 *)
(*                                                                         *)
(* An instant is its millisecond value.  startDateTime and endDateTime are *)
(* <<>> for null and <<t>> for a picked instant.  An action is an event    *)
(* handler together with the effects React runs after it.  The checkbox    *)
(* state showLimitedPoints is never set (setShowLimitedPoints has no       *)
(* caller), so the effect of lines 147-161 always takes its else branch.   *)
(***************************************************************************)
\* The step of forward and backward (lines 173 and 179).
StepSize == 10

Min(a, b) == IF a < b THEN a ELSE b
Max(a, b) == IF a > b THEN a ELSE b

\* Date.parse(x) of line 188: x, a Date or a picked date object, is converted
\* to its string form, which carries whole seconds, and the string is parsed.
DateParse(t) == (t \div 1000) * 1000

RECURSIVE FilterWindow(_, _, _)
\* matchedLocations.filter(...) of line 188
FilterWindow(matched, start, end) ==
    IF matched = <<>> THEN <<>>
    ELSE (IF /\ DateParse(Head(matched).timestamp) >= DateParse(start)
             /\ DateParse(Head(matched).timestamp) <= DateParse(end)
          THEN <<Head(matched)>> ELSE <<>>)
         \o FilterWindow(Tail(matched), start, end)

\* The value the effect of lines 184-195 hands to setFilteredLocations.
Filtered(matched, start, end) ==
    IF start # <<>> /\ end # <<>>
    THEN SortByTimestamp(FilterWindow(matched, start[1], end[1]))
    ELSE <<>>

\* Array.prototype.slice(0, n), n >= 0
Slice(s, n) == SubSeq(s, 1, Min(n, Len(s)))

\* recentLocations of line 210
RecentLocations(filtered, newIndex) == Slice(filtered, newIndex + 1)

\* useRef(null) of line 30 (0 stands for null), and no interval set.
NoAnimation == [current |-> 0, timers |-> {}]

\* Faulty variant: the interval is not cleared.
ClearIntervalNoOp(timers, id) == timers

\* clearInterval(id): the interval of that id, if it is live, is live no more.
ClearInterval(timers, id) == {t \in timers : t.id # id}

\* The id setInterval returns: one that no live interval has.  (Ids that are
\* neither live nor held by animationRef are interchangeable; the least id
\* apart from the live ones and animationRef.current is taken.)
NewIntervalId(an) ==
    LET used == {t.id : t \in an.timers} \cup {an.current}
    IN  CHOOSE id \in 1..(Cardinality(used) + 1) :
            /\ id \notin used
            /\ \A other \in 1..(id - 1) : other \in used

\* Some interval is live.
TimerLive == animation.timers # {}
\* No playback is running undisturbed.
NoPlay == [undisturbed |-> FALSE, start |-> 0, ticks |-> 0]

(***************************************************************************)
(* SpecTimeline: the records are loaded once; the window is set, changed   *)
(* and cleared; the index is stepped; playback is started and paused.      *)
(***************************************************************************)
\* The most records fetchData loads.
MaxTimelineLocations == 15
\* The records of one device, 500 ms apart, latest first.
TimelineLocations(n) ==
    [i \in 1..n |-> [deviceId |-> 1, timestamp |-> (n - i) * 500]]
TimelineLocationSets == {TimelineLocations(n) : n \in {2, MaxTimelineLocations}}
\* The instants the date pickers offer.
WindowTimes == {0, 1000, 7000}
PickerValues == {<<>>} \cup {<<t>> : t \in WindowTimes}

InitTimeline ==
    /\ startDateTime = <<>>
    /\ endDateTime = <<>>
    /\ filteredLocations = <<>>
    /\ visibleLocations = <<>>
    /\ isPlaying = FALSE
    /\ index = 0
    /\ animation = NoAnimation
    /\ playLog = NoPlay
    /\ lastOp = "none"

\* Lines 139-141: fetchData hands the records to matchKtxToLocations, which
\* sets matchedLocations; then the effects of lines 184-195 and 147-161 run.
FetchData ==
    /\ corrPc = "input"
    /\ \E locs \in TimelineLocationSets :
          /\ locations' = locs
          /\ matchedLocations' = SortByTimestamp(MapMatch(locs, <<>>))
    /\ ktxFiles' = <<>>
    /\ corrPc' = "matched"
    /\ filteredLocations' = Filtered(matchedLocations', startDateTime, endDateTime)
    /\ visibleLocations' = filteredLocations'
    /\ playLog' = NoPlay
    /\ lastOp' = "fetchData"
    /\ UNCHANGED <<startDateTime, endDateTime, isPlaying, index, animation>>
    /\ UNCHANGED <<regexVars, mainVars>>

\* Line 232: onChange of the first date picker (null when it is cleared); then
\* the effect of lines 184-195 and, filteredLocations being a new array, the
\* effect of lines 147-161.
SetStartDateTime ==
    /\ corrPc \in {"input", "matched"}
    /\ \E date \in PickerValues :
          /\ ~(date = <<>> /\ startDateTime = <<>>)
          /\ startDateTime' = date
    /\ filteredLocations' = Filtered(matchedLocations, startDateTime', endDateTime)
    /\ visibleLocations' = filteredLocations'
    /\ playLog' = NoPlay
    /\ lastOp' = "setStartDateTime"
    /\ UNCHANGED <<endDateTime, isPlaying, index, animation>>
    /\ UNCHANGED <<regexVars, corrVars, mainVars>>

\* Line 235: onChange of the second date picker, with the same effects.
SetEndDateTime ==
    /\ corrPc \in {"input", "matched"}
    /\ \E date \in PickerValues :
          /\ ~(date = <<>> /\ endDateTime = <<>>)
          /\ endDateTime' = date
    /\ filteredLocations' = Filtered(matchedLocations, startDateTime, endDateTime')
    /\ visibleLocations' = filteredLocations'
    /\ playLog' = NoPlay
    /\ lastOp' = "setEndDateTime"
    /\ UNCHANGED <<startDateTime, isPlaying, index, animation>>
    /\ UNCHANGED <<regexVars, corrVars, mainVars>>

\* Lines 172-176
Forward ==
    /\ corrPc \in {"input", "matched"}
    /\ LET newIndex == Min(index + StepSize, Len(filteredLocations) - 1)
       IN  /\ index' = newIndex
           /\ visibleLocations' = RecentLocations(filteredLocations, newIndex)
    /\ playLog' = NoPlay
    /\ lastOp' = "forward"
    /\ UNCHANGED <<startDateTime, endDateTime, filteredLocations, isPlaying,
                   animation>>
    /\ UNCHANGED <<regexVars, corrVars, mainVars>>

\* Lines 178-182
Backward ==
    /\ corrPc \in {"input", "matched"}
    /\ LET newIndex == Max(index - StepSize, 0)
       IN  /\ index' = newIndex
           /\ visibleLocations' = RecentLocations(filteredLocations, newIndex)
    /\ playLog' = NoPlay
    /\ lastOp' = "backward"
    /\ UNCHANGED <<startDateTime, endDateTime, filteredLocations, isPlaying,
                   animation>>
    /\ UNCHANGED <<regexVars, corrVars, mainVars>>

\* Lines 163-170 with startAnimation (lines 197-199): pause clears the
\* interval; play sets a new one, whose callback keeps the index and the
\* filteredLocations of the render the button was clicked in.
TogglePlayPause ==
    /\ corrPc \in {"input", "matched"}
    /\ IF isPlaying
       THEN /\ animation' =
                  [animation EXCEPT
                      !.timers = ClearInterval(@, animation.current)]
            /\ playLog' = NoPlay
            /\ lastOp' = "pause"
       ELSE /\ LET id == NewIntervalId(animation)
               IN  animation' =
                      [current |-> id,
                       timers |-> animation.timers \cup
                           {[id |-> id, currentIndex |-> index,
                             filtered |-> filteredLocations]}]
            /\ playLog' = [undisturbed |-> TRUE, start |-> index, ticks |-> 0]
            /\ lastOp' = "play"
    /\ isPlaying' = ~isPlaying
    /\ UNCHANGED <<startDateTime, endDateTime, filteredLocations,
                   visibleLocations, index>>
    /\ UNCHANGED <<regexVars, corrVars, mainVars>>

\* Lines 199-206: the callback of the interval, every 500 ms.
Tick ==
    /\ \E t \in animation.timers :
          IF t.currentIndex < Len(t.filtered)
          THEN /\ visibleLocations' = RecentLocations(t.filtered, t.currentIndex)
               /\ index' = t.currentIndex
               /\ animation' =
                     [animation EXCEPT
                         !.timers = (@ \ {t}) \cup
                             {[t EXCEPT !.currentIndex = t.currentIndex + 1]}]
          ELSE /\ animation' =
                     [animation EXCEPT
                         !.timers = ClearInterval(@, animation.current)]
               /\ UNCHANGED <<visibleLocations, index>>
    /\ playLog' = IF playLog.undisturbed
                  THEN [playLog EXCEPT !.ticks = playLog.ticks + 1]
                  ELSE playLog
    /\ lastOp' = IF lastOp \in {"forward", "backward"}
                 THEN "tickAfterStep" ELSE "tick"
    /\ UNCHANGED <<startDateTime, endDateTime, filteredLocations, isPlaying>>
    /\ UNCHANGED <<regexVars, corrVars, mainVars>>

NextTimeline ==
    \/ FetchData
    \/ SetStartDateTime
    \/ SetEndDateTime
    \/ Forward
    \/ Backward
    \/ TogglePlayPause
    \/ Tick

(***************************************************************************)
(* The specifications.  Each runs one part of the program; the variables   *)
(* of the other parts stay at their idle values.                           *)
(***************************************************************************)
IdleRegex ==
    /\ pattern = <<>>
    /\ candidate = <<>>
    /\ regexSrc = <<>>
    /\ testResult = FALSE
    /\ rxPc = "idle"

IdleCorr ==
    /\ locations = <<>>
    /\ ktxFiles = <<>>
    /\ matchedLocations = <<>>
    /\ corrPc = "idle"

IdleMain ==
    /\ handler = "idle"
    /\ pc = "idle"
    /\ archive = <<>>
    /\ zipState = "none"
    /\ readPending = FALSE
    /\ entriesRead = 0
    /\ copy = <<>>
    /\ promise = Pending
    /\ folder = {}
    /\ uncaught = {}
    /\ db = "none"
    /\ rows = <<>>
    /\ locationData = <<>>
    /\ handlerResult = HandlerPending

\* The timeline before any operation: the values of useState (lines 25-39).
IdleTimeline == InitTimeline

Next == NextExtract \/ NextProcess \/ NextQuery

Init == IdleRegex /\ IdleCorr /\ InitMain /\ IdleTimeline

Spec == Init /\ [][Next]_vars

InitSpecRegex == InitRegex /\ IdleCorr /\ IdleMain /\ IdleTimeline

SpecRegex == InitSpecRegex /\ [][NextRegex]_vars

InitSpecCorr == IdleRegex /\ InitCorr /\ IdleMain /\ IdleTimeline

SpecCorr == InitSpecCorr /\ [][NextCorr]_vars

\* The component is mounted: nothing is loaded yet (lines 32-37).
NothingLoaded ==
    /\ locations = <<>>
    /\ ktxFiles = <<>>
    /\ matchedLocations = <<>>
    /\ corrPc = "input"

InitSpecTimeline == IdleRegex /\ NothingLoaded /\ IdleMain /\ InitTimeline

SpecTimeline == InitSpecTimeline /\ [][NextTimeline]_vars

(***************************************************************************)
(* Claims about the handlers of main.ts (checked under Spec).              *)
(***************************************************************************)
\* Whether the entry name matches the pattern of the handler.
MatchesPattern(name) == RegexTest(WildcardToRegex(MatchingPathPattern), name)
\* The positions of the matching entries of the archive.
MatchingEntries == {i \in 1..Len(archive) : MatchesPattern(archive[i])}
\* The extracted file paths a result of extractFilesMatchingPath holds.
PathsOf(value) == IF value = CompleteMessage THEN <<>> ELSE <<value>>
ExtractSucceeded ==
    Extracting /\ handlerResult.state = "returned" /\ handlerResult.success

\* C1: the promise of extractFilesMatchingPath is resolved only when every
\* entry of the archive has been visited.
C1_ResolvedOnlyWhenExhausted ==
    (Extracting /\ promise.state = "resolved") => entriesRead = Len(archive)

\* The handler has returned success while a matching entry is still unread.
C1_Witness ==
    /\ ExtractSucceeded
    /\ \E i \in MatchingEntries : i > entriesRead

\* C2: when the extraction has completed with N matching entries in the
\* archive, the result holds exactly N paths and the folder exactly N files.
C2_ExactlyNPathsAndFiles ==
    ExtractSucceeded =>
        /\ Len(PathsOf(handlerResult.payload)) = Cardinality(MatchingEntries)
        /\ Cardinality(folder) = Cardinality(MatchingEntries)

\* The archive holds two matching entries with different base names, every
\* entry was visited and copied, and the result holds the path of one file.
C2_Witness ==
    /\ ExtractSucceeded
    /\ archive = <<KtxA1, KtxB>>
    /\ zipState = "ended"
    /\ \A i \in 1..Len(archive) : copy[i] = "finished"
    /\ Len(PathsOf(handlerResult.payload)) = 1

\* C7: no handler ends with a rejected promise.
C7_HandlersReturnEnvelope == handlerResult.state # "rejected"

\* process-zip-file has ended with a rejected promise after the insert failed.
C7_Witness ==
    /\ Processing
    /\ handlerResult = Rejected(<<"insert error">>)

\* extractFileFromZip resolved: with the destination path, and the entry that
\* equals the target was found and its write has finished.
TargetResolvedAfterWrite ==
    (Processing /\ promise.state = "resolved") =>
        /\ promise.value = <<"d", "/", "C", ".", "s">>
        /\ \E i \in 1..entriesRead :
              archive[i] = TargetFilePathInZip /\ copy[i] = "finished"

\* extractFileFromZip failed with the not-found error naming the target
\* exactly when the archive was exhausted and no entry equals the target.
TargetNotFoundIffExhausted ==
    Processing =>
        ((promise = [state |-> "rejected", value |-> NotFoundMessage])
            <=> /\ zipState = "ended"
                /\ entriesRead = Len(archive)
                /\ \A i \in 1..Len(archive) : archive[i] # TargetFilePathInZip)

\* The promise of extractFileFromZip, once settled, keeps its outcome.
TargetSettlesAtMostOnce ==
    [][(Processing /\ promise.state # "pending") => promise' = promise]_vars

\* While extractFileFromZip is awaited and not settled, some event that leads
\* on is still to come.
TargetSettles ==
    (Processing /\ pc = "awaitExtract" /\ promise.state = "pending")
        => ENABLED Next

\* C8: extractFileFromZip settles exactly once: resolved with the destination
\* path only after the target was found and written, failed with not-found
\* exactly when the archive was exhausted without the target.
C8_SettlesExactlyOnce ==
    /\ TargetResolvedAfterWrite
    /\ TargetNotFoundIffExhausted
    /\ TargetSettles

\* The target was found, its read stream failed while copying, and the
\* promise of extractFileFromZip is pending with no event left to settle it.
C8_Witness ==
    /\ Processing /\ pc = "awaitExtract"
    /\ promise.state = "pending"
    /\ \E i \in 1..Len(archive) :
          archive[i] = TargetFilePathInZip /\ copy[i] = "failed"
    /\ "readStream error" \in uncaught
    /\ ~ENABLED Next

\* C9: when process-zip-file has ended after the database was opened, the
\* database is closed.
C9_DatabaseClosedOnEveryExit ==
    (Processing /\ pc = "done" /\ db \notin {"none", "openFailed"})
        => db = "closed"

\* The query failed on the open database; the handler has ended and the
\* database is still open.
C9_Witness ==
    /\ Processing /\ pc = "done"
    /\ handlerResult = Rejected(<<"query error">>)
    /\ db = "open"

\* The UTC calendar date and time of day <<year, month, day, seconds of the
\* day, milliseconds>> of a Date.
UtcOf(date) ==
    LET days == date.sec \div 86400
        z == days + 719468
        era == z \div 146097
        doe == z - era * 146097
        yoe == (doe - (doe \div 1460) + (doe \div 36524) - (doe \div 146096)) \div 365
        doy == doe - (365 * yoe + (yoe \div 4) - (yoe \div 100))
        mp == (5 * doy + 2) \div 153
        d == doy - ((153 * mp + 2) \div 5) + 1
        m == IF mp < 10 THEN mp + 3 ELSE mp - 9
        y == yoe + era * 400 + (IF m <= 2 THEN 1 ELSE 0)
    IN  <<y, m, d, date.sec % 86400, date.ms>>

\* The query callback has converted the rows it was given.
RowsConverted == Processing /\ pc \in {"awaitInsert", "done"}

CopiesInProgress ==
    {i \in 1..Len(archive) : copy[i] \in {"opening", "piping", "flushing"}}
\* The positions of the entries whose copy failed.
FailedCopies == {i \in 1..Len(archive) : copy[i] = "failed"}
\* extractFilesMatchingPath opened the archive, the archive itself raised no
\* error, and exactly one entry failed: its read stream could not be opened
\* or its write failed.
OneEntryFailed ==
    /\ Extracting
    /\ zipState \in {"open", "ended"}
    /\ Cardinality(FailedCopies) = 1
    /\ "readStream error" \notin uncaught

\* C17: when one matching entry has failed and no event is left, every entry
\* of the archive was visited, every other matching entry was extracted, and
\* the handler has returned a result that names the failure.
C17_EntryFailureIsolated ==
    (OneEntryFailed /\ ~ENABLED Next) =>
        /\ entriesRead = Len(archive)
        /\ \A j \in MatchingEntries \ FailedCopies : copy[j] = "finished"
        /\ handlerResult.state = "returned"
        /\ handlerResult.payload \in
              {<<"openReadStream failed">>, <<"writeStream error">>}

\* The read stream of the first of two matching entries could not be opened:
\* the scan has stopped with the second entry unread.
C17_Witness ==
    /\ OneEntryFailed /\ ~ENABLED Next
    /\ archive = <<KtxA1, KtxB>>
    /\ copy = <<"failed", "none">>
    /\ entriesRead = 1
    /\ handlerResult = Returned(FALSE, <<"openReadStream failed">>)

\* C18: while the next entry is requested no copy is under way, and at no
\* time are two copies under way.
C18_OneEntryAtATime ==
    Extracting =>
        /\ readPending => CopiesInProgress = {}
        /\ Cardinality(CopiesInProgress) <= 1

\* The first entry is still flushed to its file while the second is piped.
C18_Witness ==
    /\ Extracting
    /\ \E i, j \in 1..Len(archive) :
          i < j /\ copy[i] = "flushing" /\ copy[j] = "piping"

\* An error of extractFileFromZip has occurred: of yauzl.open, of the
\* archive, or of a stream of the target entry.
TargetErrorOccurred ==
    /\ Processing
    /\ \/ zipState \in {"failed", "errored"}
       \/ FailedCopies # {}

\* C19: once an archive-open error or a stream error has occurred, the
\* promise of extractFileFromZip is rejected.
C19_EveryErrorRejects ==
    TargetErrorOccurred => promise.state = "rejected"

\* The read stream of the target raised an error while it was copied; the
\* archive is still open, nothing is requested from it, and the promise and
\* the handler are pending.
C19_Witness ==
    /\ TargetErrorOccurred
    /\ uncaught = {"readStream error"}
    /\ zipState = "open" /\ ~readPending
    /\ promise = Pending
    /\ handlerResult = HandlerPending


(***************************************************************************)
(* Claims about wildcardToRegex (checked under SpecRegex).                 *)
(***************************************************************************)
PathAXB == <<"a", "/", "x", "/", "b", ".", "k", "t", "x">>
PathAEmptyB == <<"a", "/", "/", "b", ".", "k", "t", "x">>
PathAXYB == <<"a", "/", "x", "/", "y", "/", "b", ".", "k", "t", "x">>
PathAXBNoDot == <<"a", "/", "x", "/", "b", "X", "k", "t", "x">>

StarTested == rxPc = "tested" /\ pattern = PatternStar

\* candidate is a/ + middle + /b.ktx; the middle is what "*" spans.
HasStarShape(c) ==
    /\ Len(c) >= 8
    /\ SubSeq(c, 1, 2) = <<"a", "/">>
    /\ SubSeq(c, Len(c) - 5, Len(c)) = <<"/", "b", ".", "k", "t", "x">>
StarMiddle(c) == SubSeq(c, 3, Len(c) - 6)
NoneIn(s, chars) == \A i \in 1..Len(s) : s[i] \notin chars

\* C3 as stated: for a/*/b.ktx a path is accepted only when it is a/ + one
\* path segment (no separator in it, possibly empty) + /b.ktx; a/x/b.ktx and
\* a//b.ktx are accepted, a/x/y/b.ktx and a/x/bXktx are not.
C3_StarSpansOneSegment ==
    StarTested =>
        /\ testResult =>
              HasStarShape(candidate) /\ NoneIn(StarMiddle(candidate), {"/"})
        /\ candidate \in {PathAXB, PathAEmptyB} => testResult
        /\ candidate \in {PathAXYB, PathAXBNoDot} => ~testResult

\* C3 amended: for a/*/b.ktx a path is accepted exactly when it is a/ + any
\* run of characters other than line terminators (possibly empty, possibly
\* holding separators) + /b.ktx, the dot being a dot: a/x/b.ktx, a//b.ktx
\* and a/x/y/b.ktx are accepted, a/x/bXktx is not.
C3_StarSpansAnyRun ==
    StarTested =>
        /\ testResult <=>
              HasStarShape(candidate)
              /\ NoneIn(StarMiddle(candidate), LineTerminators)
        /\ candidate \in {PathAXB, PathAEmptyB, PathAXYB} => testResult
        /\ candidate = PathAXBNoDot => ~testResult

\* The tested path a/x/y/b.ktx, whose "*" spans two segments, was accepted.
C3_Witness == StarTested /\ candidate = PathAXYB /\ testResult

(***************************************************************************)
(* Claims about matchKtxToLocations (checked under SpecCorr).              *)
(***************************************************************************)
Matched == corrPc = "matched"
MatchedIdx == 1..Len(matchedLocations)
\* The positions in ktxFiles of the snapshots of device d.
OwnSnapshots(d) == {j \in 1..Len(ktxFiles) : ktxFiles[j].deviceId = d}
\* Some snapshot of m's own device is closer to m than the tolerance.
OwnWithinTolerance(m) ==
    \E j \in OwnSnapshots(m.deviceId) :
        Abs(m.timestamp - ktxFiles[j].timestamp) < KtxTolerance

\* C4: in the output, a record that carries a snapshot or is flagged matched
\* carries a snapshot of its own device.
C4_NeverAcrossDevices ==
    Matched =>
        \A i \in MatchedIdx :
            LET m == matchedLocations[i]
            IN  (m.ktxObj # <<>> \/ m.hasKtxFile = "true")
                    => m.ktxObj # <<>> /\ m.ktxObj[1].deviceId = m.deviceId

\* A location is flagged matched with the snapshot of another device although
\* its own device has a snapshot.
C4_Witness ==
    /\ Matched
    /\ \E i \in MatchedIdx :
          LET m == matchedLocations[i]
          IN  /\ m.hasKtxFile = "true"
              /\ m.ktxObj[1].deviceId # m.deviceId
              /\ OwnSnapshots(m.deviceId) # {}

\* C5: a location whose device has no snapshot in the input is not flagged
\* matched, whatever snapshots other devices have.
C5_NoSnapshotsNoMatch ==
    Matched =>
        \A i \in MatchedIdx :
            LET m == matchedLocations[i]
            IN  OwnSnapshots(m.deviceId) = {} => m.hasKtxFile # "true"

\* A location of a device without snapshots is flagged matched.
C5_Witness ==
    /\ Matched
    /\ \E i \in MatchedIdx :
          LET m == matchedLocations[i]
          IN  OwnSnapshots(m.deviceId) = {} /\ m.hasKtxFile = "true"

\* C6: a location is flagged matched exactly when the least difference to a
\* snapshot of its own device is strictly below 30000 ms, and a record that is
\* not flagged matched carries no snapshot.
C6_MatchedIffWithinTolerance ==
    Matched =>
        \A i \in MatchedIdx :
            LET m == matchedLocations[i]
            IN  /\ m.hasKtxFile = "true" <=> OwnWithinTolerance(m)
                /\ m.hasKtxFile # "true" => m.ktxObj = <<>>

\* A location with snapshots of its own device only, the nearest exactly
\* 30000 ms away: not flagged matched, and the snapshot is attached all the same.
C6_Witness ==
    /\ Matched
    /\ \A j \in 1..Len(ktxFiles) : ktxFiles[j].deviceId = 1
    /\ \E i \in MatchedIdx :
          LET m == matchedLocations[i]
          IN  /\ m.deviceId = 1
              /\ m.hasKtxFile = "false"
              /\ m.ktxObj # <<>>
              /\ Abs(m.timestamp - m.ktxObj[1].timestamp) = KtxTolerance

\* The distance in time between the record m and the snapshot at position j.
Diff(m, j) == Abs(m.timestamp - ktxFiles[j].timestamp)
\* The positions of the snapshots of m's device that are nearest to m.
NearestOwn(m) ==
    {j \in OwnSnapshots(m.deviceId) :
        \A k \in OwnSnapshots(m.deviceId) : Diff(m, j) <= Diff(m, k)}
\* The least position of a non-empty set of positions.
First(S) == CHOOSE j \in S : \A k \in S : j <= k

\* C20: a location whose device has snapshots carries the snapshot of its
\* device that is nearest in time, the first of them in the input order when
\* several are equally near.  (A snapshot's filepath is its input position.)
C20_NearestOwnFirst ==
    Matched =>
        \A i \in MatchedIdx :
            LET m == matchedLocations[i]
            IN  OwnSnapshots(m.deviceId) # {} =>
                    /\ m.ktxObj # <<>>
                    /\ m.ktxObj[1].filepath = First(NearestOwn(m))

\* A snapshot of another device, first in the input, and a snapshot of the
\* location's own device are equally near: the other device's is chosen.
C20_Witness ==
    /\ Matched
    /\ \E i \in MatchedIdx :
          LET m == matchedLocations[i]
          IN  /\ NearestOwn(m) # {}
              /\ m.ktxObj[1].filepath = 1
              /\ ktxFiles[1].deviceId # m.deviceId
              /\ Diff(m, First(NearestOwn(m))) = Diff(m, 1)


(***************************************************************************)
(* Claims about the timeline (checked under SpecTimeline).                 *)
(***************************************************************************)
WindowSet == startDateTime # <<>> /\ endDateTime # <<>>
WindowChanged == lastOp \in {"setStartDateTime", "setEndDateTime"}
\* The length of the working sequence.
WorkingLength == Len(filteredLocations)

\* C11: the play index lies within [0, length - 1] of the working sequence,
\* and is 0 when the working sequence is empty.
C11_IndexWithinSequence ==
    IF filteredLocations = <<>>
    THEN index = 0
    ELSE index \in 0..(WorkingLength - 1)

\* The window was changed while the index stood beyond the end of the new,
\* shorter working sequence, and the index stayed there.
C11_Witness ==
    /\ WindowChanged
    /\ filteredLocations # <<>>
    /\ index > WorkingLength - 1

\* C12: after the window was changed, the play index is 0 and no playback
\* tick is active.
C12_WindowChangeResets ==
    WindowChanged => index = 0 /\ ~TimerLive

\* The end of the window was changed while playback was running and the index
\* was not 0: the interval is still live and the index is not 0.
C12_Witness ==
    /\ lastOp = "setEndDateTime"
    /\ WindowSet
    /\ isPlaying /\ TimerLive
    /\ index > 0

\* C13: the visible subset is the prefix of the working sequence of length
\* index + 1 (empty when the working sequence is empty).
C13_VisibleIsPrefix ==
    IF filteredLocations = <<>>
    THEN visibleLocations = <<>>
    ELSE /\ index + 1 \in 1..WorkingLength
         /\ visibleLocations = SubSeq(filteredLocations, 1, index + 1)

\* Right after the window was set, with index 0 and a working sequence of
\* several records, the visible subset is the whole working sequence.
C13_Witness ==
    /\ WindowChanged
    /\ index = 0
    /\ WorkingLength > 1
    /\ visibleLocations = filteredLocations

\* C14: with play started at index i on a working sequence of length n and
\* nothing but ticks since, after k ticks the index is i + k, capped at
\* n - 1; the interval is cancelled only once the index is n - 1, and is
\* cancelled by the tick that follows the last advance of the code.
C14_TickAdvancesByOne ==
    (playLog.undisturbed /\ playLog.start \in 0..(WorkingLength - 1)) =>
        /\ index = Min(playLog.start + playLog.ticks, WorkingLength - 1)
        /\ ~TimerLive => index = WorkingLength - 1
        /\ playLog.ticks > WorkingLength - playLog.start => ~TimerLive

\* Play was started at index 0 on a working sequence of several records and
\* one tick has come: the index is still 0.
C14_Witness ==
    /\ playLog = [undisturbed |-> TRUE, start |-> 0, ticks |-> 1]
    /\ lastOp = "tick"
    /\ WorkingLength > 1
    /\ index = 0

\* C15: stepForward sets the index to min(i + 10, n - 1) and stepBackward to
\* max(i - 10, 0), the result within [0, n - 1]; with n = 15, stepForward
\* from 0 gives 10 with 11 visible records, and stepForward from 10 gives 14.
C15_StepsClamp ==
    [][/\ lastOp' = "forward" =>
            /\ index' = Min(index + 10, WorkingLength - 1)
            /\ index' \in 0..(WorkingLength - 1)
            /\ (WorkingLength = 15 /\ index = 0) =>
                  index' = 10 /\ Len(visibleLocations') = 11
            /\ (WorkingLength = 15 /\ index = 10) => index' = 14
       /\ lastOp' = "backward" =>
            /\ index' = Max(index - 10, 0)
            /\ index' \in 0..(WorkingLength - 1)]_vars

\* stepForward on the empty working sequence has left the index at -1.
C15_Witness ==
    /\ lastOp = "forward"
    /\ filteredLocations = <<>>
    /\ index = -1

\* The records of matched whose timestamp t satisfies start <= t <= end, in
\* the order of matched.
WithinWindow(matched, start, end) ==
    SelectSeq(matched, LAMBDA l : start <= l.timestamp /\ l.timestamp <= end)
Ascending(s) ==
    \A i \in 1..(Len(s) - 1) : s[i].timestamp <= s[i + 1].timestamp

\* C16: the working sequence is exactly the correlated records with
\* start <= t <= end, ascending by timestamp, and is empty whenever the start
\* or the end of the window is unset.
C16_WorkingSequenceIsWindow ==
    /\ Ascending(filteredLocations)
    /\ filteredLocations =
          IF WindowSet
          THEN WithinWindow(matchedLocations, startDateTime[1], endDateTime[1])
          ELSE <<>>

\* The window ends at 1000 ms and the working sequence holds the record of
\* 1500 ms.
C16_Witness ==
    /\ startDateTime = <<0>> /\ endDateTime = <<1000>>
    /\ \E i \in 1..WorkingLength : filteredLocations[i].timestamp = 1500

\* The ids of the live intervals.
LiveIds == {t.id : t \in animation.timers}

\* C21: at most one interval is live, and an interval is set only when none
\* is live (after any sequence of toggles, automatic stops, steps and window
\* changes).
C21_SingleTimer ==
    /\ [](Cardinality(animation.timers) <= 1)
    /\ [][LiveIds' \ LiveIds # {} => LiveIds = {}]_vars

\* Play was clicked again after an earlier interval, which was cleared: the
\* second interval is the only one live.
C21_Witness ==
    /\ lastOp = "play"
    /\ animation.current = 2
    /\ LiveIds = {2}

\* C22: isPlaying is true exactly when an interval is live.
C22_PlayingIffTimer == isPlaying <=> TimerLive

\* The interval has cleared itself at the end of the sequence and isPlaying
\* is still true.
C22_Witness ==
    /\ lastOp = "tick"
    /\ isPlaying
    /\ ~TimerLive
    /\ WorkingLength > 0
    /\ index = WorkingLength - 1

\* C23: the tick that follows a step made while playback is running sets the
\* index to the stepped index plus 1, capped at the end, and shows the
\* prefix of the current working sequence up to it.
C23_TickFollowsStep ==
    [][(/\ lastOp \in {"forward", "backward"}
        /\ lastOp' = "tickAfterStep"
        /\ index \in 0..(WorkingLength - 1)) =>
            /\ index' = Min(index + 1, WorkingLength - 1)
            /\ visibleLocations' = SubSeq(filteredLocations, 1, index' + 1)]_vars

\* Playback was running on a working sequence of more than ten records, the
\* index was stepped forward, and the next tick has put the index back to 0
\* with one record visible.
C23_Witness ==
    /\ lastOp = "tickAfterStep"
    /\ TimerLive
    /\ WorkingLength > StepSize
    /\ index = 0
    /\ Len(visibleLocations) = 1

=============================================================================
